---- MODULE Spec2Model ----
(***************************************************************************)
(* Client-side session of the travel planner: frontend/static/script.js    *)
(* running in a page that provides at least the elements of                *)
(* frontend/templates/index.html.                                          *)
(*                                                                         *)
(* Strings are TLA+ strings; startsWith, includes, replace and trim are    *)
(* computed character by character as String.prototype does.               *)
(*                                                                         *)
(* The page is index.html plus any of the elements script.js looks up and  *)
(* index.html lacks; getElementById of a missing id is null, and the       *)
(* statement that dereferences it throws, ending the handler there.        *)
(* A WebSocket replaced by a later startPlanning stays open with its       *)
(* onmessage handler, which writes to the same page elements.              *)
(* ws.send throws on a CONNECTING socket and drops the data on a CLOSED    *)
(* one.                                                                    *)
(***************************************************************************)
EXTENDS Integers, Sequences, FiniteSets, TLC

VARIABLES
    dom,                    \* ids of the elements the page provides
    progress,               \* textContent of the children of #progress, in order
    itinerary,              \* innerHTML of #itinerary
    display,                \* style.display of the elements the script styles
    clusterInput,           \* value of #cluster-input
    currentMarkdownContent, \* script.js:9
    ws,                     \* script.js:8, index into sockets, 0 = undefined
    sockets,                \* every WebSocket created so far: its readyState
    outbox,                 \* every ws.send(data) call: data, readyState of ws
    promptPending,          \* history: a line raised the selection box and no
                            \* selection has gone out since
    last                    \* history: when the last event was a startPlanning call,
                            \* its outcome and the session it was called in

vars == <<dom, progress, itinerary, display, clusterInput,
          currentMarkdownContent, ws, sockets, outbox, promptPending, last>>

----------------------------------------------------------------------------
(* Bounds of the model *)

MaxSockets == 2
MaxLog == 2
MaxSends == 1

----------------------------------------------------------------------------
(* Literals of the protocol *)

SENTINEL == "Itinerary generated successfully!"
PROMPT == "Please review the options and select the correct option"

----------------------------------------------------------------------------
(* The page *)

IndexHtmlIds ==
    {"destination", "travelDate", "outputFormat",
     "option-selection", "option-input", "progress"}

ScriptOnlyIds == {"itinerary", "copyButton", "cluster-input", "cluster-selection"}

StyledIds == {"option-selection", "copyButton", "cluster-selection"}

Has(id) == id \in dom

----------------------------------------------------------------------------
(* String.prototype *)

Whitespace == {" ", "\t", "\n", "\r"}

CharAt(s, i) == SubSeq(s, i, i)

startsWith(s, p) ==
    /\ Len(s) >= Len(p)
    /\ SubSeq(s, 1, Len(p)) = p

OccursAt(s, p, i) ==
    /\ i >= 1
    /\ i + Len(p) - 1 <= Len(s)
    /\ SubSeq(s, i, i + Len(p) - 1) = p

includes(s, p) == \E i \in 1..(Len(s) + 1) : OccursAt(s, p, i)

indexOf(s, p) ==
    IF includes(s, p)
    THEN CHOOSE i \in 1..(Len(s) + 1) :
            /\ OccursAt(s, p, i)
            /\ \A j \in 1..(i - 1) : ~OccursAt(s, p, j)
    ELSE 0

\* s.replace(p, r) with a string pattern: the first occurrence only
replace(s, p, r) ==
    LET i == indexOf(s, p)
    IN  IF i = 0 THEN s
        ELSE SubSeq(s, 1, i - 1) \o r \o SubSeq(s, i + Len(p), Len(s))

trim(s) ==
    LET solid == {i \in 1..Len(s) : CharAt(s, i) \notin Whitespace}
    IN  IF solid = {} THEN ""
        ELSE LET lo == CHOOSE i \in solid : \A j \in solid : i <= j
                 hi == CHOOSE i \in solid : \A j \in solid : j <= i
             IN  SubSeq(s, lo, hi)

\* marked.parse of the external library marked: the document wrapped in markup
markedParse(md) == IF md = "" THEN "" ELSE "<html>" \o md \o "</html>"

----------------------------------------------------------------------------
(* Inputs *)

Destinations == {"", "  ", "Paris"}

\* <input type="date"> holds "" or a date
TravelDates == {"", "2024-06-01"}

Selections == {"", "1"}

Lines ==
    {"note: " \o PROMPT \o " now",
     SENTINEL \o " # Paris Trip ",
     SENTINEL \o " ",
     SENTINEL \o " " \o PROMPT,
     "x" \o SENTINEL \o "ABC"}

----------------------------------------------------------------------------
(* The session as the page shows it *)

log == progress

finalContent == currentMarkdownContent

FinalContentSet == currentMarkdownContent # ""

PendingSelection == display["option-selection"] = "block"

OpenSockets == {i \in 1..Len(sockets) : sockets[i] = "OPEN"}

State ==
    IF ws = 0 THEN "Idle"
    ELSE IF sockets[ws] = "CLOSED" THEN "Closed"
    ELSE IF display["copyButton"] = "block" THEN "Completed"
    ELSE IF PendingSelection THEN "AwaitingSelection"
    ELSE "Planning"

\* the messages that went out: send() calls made on an open socket
IsTransmitted(m) == m.readyState = "OPEN"

Transmitted == SelectSeq(outbox, IsTransmitted)

Pre == [state |-> State, final |-> FinalContentSet, flag |-> PendingSelection,
        logged |-> progress # <<>>]

NoStart ==
    [outcome |-> "",
     pre |-> [state |-> "", final |-> FALSE, flag |-> FALSE, logged |-> FALSE]]

Started(outcome) == [outcome |-> outcome, pre |-> Pre]

----------------------------------------------------------------------------
(* Initial state: the page is loaded, no session *)

Init ==
    /\ dom \in {IndexHtmlIds \cup S : S \in SUBSET ScriptOnlyIds}
    /\ progress = <<>>
    /\ itinerary = ""
    /\ display \in [StyledIds -> {"", "none"}]
    /\ display["option-selection"] = "none"
    /\ \A id \in StyledIds : ~Has(id) => display[id] = ""
    /\ clusterInput = ""
    /\ currentMarkdownContent = ""
    /\ ws = 0
    /\ sockets = <<>>
    /\ outbox = <<>>
    /\ promptPending = FALSE
    /\ last = NoStart

----------------------------------------------------------------------------
(* validateInputs, script.js:15-30: the alert it shows, "" when valid *)

\* the travel date not tested
validateInputs_noDate(destinationValue, travelDateValue) ==
    IF trim(destinationValue) = "" THEN "Please enter a destination" ELSE ""

\* the values tested as typed, without trim()
validateInputs_untrimmed(destinationValue, travelDateValue) ==
    IF destinationValue = "" THEN "Please enter a destination"
    ELSE IF travelDateValue = "" THEN "Please enter a travel date"
    ELSE ""

validateInputs(destinationValue, travelDateValue) ==
    LET destination == trim(destinationValue)
        travelDate == trim(travelDateValue)
    IN  IF destination = "" THEN "Please enter a destination"
        ELSE IF travelDate = "" THEN "Please enter a travel date"
        ELSE ""

----------------------------------------------------------------------------
(* startPlanning, script.js:36-80 *)

\* the first statement of lines 47-50 that dereferences a missing element
\* (getElementById returned null), "none" when all four elements exist
StartThrowsAt ==
    IF ~Has("progress") THEN "progressDiv"
    ELSE IF ~Has("itinerary") THEN "itineraryDiv"
    ELSE IF ~Has("option-selection") THEN "optionSelectionDiv"
    ELSE IF ~Has("copyButton") THEN "copyButton"
    ELSE "none"

ClearsProgress == StartThrowsAt \notin {"progressDiv"}

ClearsItinerary == StartThrowsAt \notin {"progressDiv", "itineraryDiv"}

HidesOptionSelection ==
    StartThrowsAt \notin {"progressDiv", "itineraryDiv", "optionSelectionDiv"}

HidesCopyButton == StartThrowsAt = "none"

\* line 51 left out
ResetsMarkdownContent_never == FALSE

ResetsMarkdownContent == StartThrowsAt = "none"

OpensWebSocket == StartThrowsAt = "none"

\* the alert of validateInputs for each pair of values the user can enter
Validated ==
    [destinationValue \in Destinations, travelDateValue \in TravelDates |->
        validateInputs(destinationValue, travelDateValue)]

startPlanning(destinationValue, travelDateValue) ==
    LET alert == Validated[destinationValue, travelDateValue]
    IN  IF alert # ""
        THEN /\ last' = Started("invalid")
             /\ UNCHANGED <<dom, progress, itinerary, display, clusterInput,
                            currentMarkdownContent, ws, sockets, outbox,
                            promptPending>>
        ELSE /\ OpensWebSocket => Len(sockets) < MaxSockets
             /\ progress' = IF ClearsProgress THEN <<>> ELSE progress
             /\ itinerary' = IF ClearsItinerary THEN "" ELSE itinerary
             /\ display' =
                  [display EXCEPT
                     !["option-selection"] =
                         IF HidesOptionSelection THEN "none" ELSE @,
                     !["copyButton"] = IF HidesCopyButton THEN "none" ELSE @]
             /\ currentMarkdownContent' =
                  IF ResetsMarkdownContent THEN "" ELSE currentMarkdownContent
             /\ sockets' =
                  IF OpensWebSocket THEN Append(sockets, "CONNECTING")
                  ELSE sockets
             /\ ws' = IF OpensWebSocket THEN Len(sockets) + 1 ELSE ws
             /\ last' = Started(IF StartThrowsAt = "none" THEN "ok" ELSE "TypeError")
             /\ promptPending' = (promptPending /\ ~HidesOptionSelection)
             /\ UNCHANGED <<dom, clusterInput, outbox>>

----------------------------------------------------------------------------
(* ws.onmessage, script.js:56-79, of the socket created by any startPlanning *)

\* the prompt looked for at the start of the message only
ShowsOptionSelection_prefix(message) == startsWith(message, PROMPT)

ShowsOptionSelection(message) == includes(message, PROMPT)

\* the sentinel looked for anywhere in the message
IsFinalItinerary_anywhere(message) == includes(message, SENTINEL)

IsFinalItinerary(message) == startsWith(message, SENTINEL)

\* the new element put first
AppendMessage_first(children, message) == <<message>> \o children

\* lines 70-73: progressDiv.appendChild of a div holding the message
AppendMessage(children, message) == Append(children, message)

\* what the handler computes from event.data, for each line the server sends
Handled ==
    [message \in Lines |->
        [shows |-> ShowsOptionSelection(message),
         final |-> IsFinalItinerary(message),
         content |-> trim(replace(message, SENTINEL, ""))]]

onmessage(i, message) ==
    /\ i \in OpenSockets
    /\ Handled[message].final \/ Len(progress) < MaxLog
    /\ IF Handled[message].final
       THEN /\ currentMarkdownContent' = Handled[message].content
            /\ itinerary' = markedParse(currentMarkdownContent')
            /\ UNCHANGED progress
       ELSE /\ progress' = AppendMessage(progress, message)
            /\ UNCHANGED <<currentMarkdownContent, itinerary>>
    /\ display' =
         [display EXCEPT
            !["option-selection"] =
                IF Handled[message].shows THEN "block" ELSE @,
            !["copyButton"] =
                IF Handled[message].final THEN "block" ELSE @]
    /\ promptPending' = (promptPending \/ Handled[message].shows)
    /\ last' = NoStart
    /\ UNCHANGED <<dom, clusterInput, ws, sockets, outbox>>

----------------------------------------------------------------------------
(* submitClusterSelection, script.js:85-92, after the user typed text *)

\* the condition of line 87
SendsSelection(clusterSelection) == ws # 0 /\ clusterSelection # ""

submitClusterSelection(text) ==
    IF ~Has("cluster-input")
    THEN \* line 86 dereferences null
         /\ last' = NoStart
         /\ UNCHANGED <<dom, progress, itinerary, display, clusterInput,
                        currentMarkdownContent, ws, sockets, outbox,
                        promptPending>>
    ELSE IF ~SendsSelection(text)
    THEN /\ clusterInput' = text
         /\ last' = NoStart
         /\ UNCHANGED <<dom, progress, itinerary, display,
                        currentMarkdownContent, ws, sockets, outbox,
                        promptPending>>
    ELSE /\ Len(outbox) < MaxSends
         /\ outbox' = Append(outbox, [data |-> text, readyState |-> sockets[ws]])
         /\ promptPending' = (promptPending /\ sockets[ws] # "OPEN")
         /\ IF sockets[ws] = "CONNECTING"
            THEN \* send() throws InvalidStateError
                 /\ clusterInput' = text
                 /\ UNCHANGED display
            ELSE IF ~Has("cluster-selection")
            THEN \* line 89 dereferences null, after the send
                 /\ clusterInput' = text
                 /\ UNCHANGED display
            ELSE /\ display' = [display EXCEPT !["cluster-selection"] = "none"]
                 /\ clusterInput' = ""
         /\ last' = NoStart
         /\ UNCHANGED <<dom, progress, itinerary, currentMarkdownContent,
                        ws, sockets>>

----------------------------------------------------------------------------
(* The network: a socket opens, or closes (by the server or on an error).  *)
(* script.js sets no onopen, onclose or onerror handler.                   *)

SocketOpens(i) ==
    /\ i \in 1..Len(sockets)
    /\ sockets[i] = "CONNECTING"
    /\ sockets' = [sockets EXCEPT ![i] = "OPEN"]
    /\ last' = NoStart
    /\ UNCHANGED <<dom, progress, itinerary, display, clusterInput,
                   currentMarkdownContent, ws, outbox, promptPending>>

SocketCloses(i) ==
    /\ i \in 1..Len(sockets)
    /\ sockets[i] # "CLOSED"
    /\ sockets' = [sockets EXCEPT ![i] = "CLOSED"]
    /\ last' = NoStart
    /\ UNCHANGED <<dom, progress, itinerary, display, clusterInput,
                   currentMarkdownContent, ws, outbox, promptPending>>

----------------------------------------------------------------------------

Start == \E d \in Destinations, t \in TravelDates : startPlanning(d, t)

Message == \E i \in 1..MaxSockets, m \in Lines : onmessage(i, m)

Submit == \E text \in Selections : submitClusterSelection(text)

Open == \E i \in 1..MaxSockets : SocketOpens(i)

Close == \E i \in 1..MaxSockets : SocketCloses(i)

Next == Start \/ Message \/ Submit \/ Open \/ Close

Spec == Init /\ [][Next]_vars

----------------------------------------------------------------------------
(* Claims *)

Blank(s) == trim(s) = ""

\* the step is a startPlanning call (every call is recorded in last)
StartCalled == last'.outcome # ""

\* C1: in every reachable state where the session is not AwaitingSelection,
\* submitSelection(text) sends no outbound message, changes no state and
\* leaves log unchanged.
C1_SubmitOutsideAwaitingIsNoOp ==
    [][\A text \in Selections :
          (State # "AwaitingSelection" /\ submitClusterSelection(text))
          => /\ Transmitted' = Transmitted
             /\ State' = State
             /\ log' = log]_vars

\* C2: once a Terminal line has been delivered (the session is Completed),
\* a later inbound message of that session leaves log and finalContent
\* unchanged.
C2_NoMutationAfterCompleted ==
    [][\A m \in Lines :
          (State = "Completed" /\ onmessage(ws, m))
          => /\ log' = log
             /\ finalContent' = finalContent]_vars

\* C3: a line that begins with the sentinel and contains the prompt substring
\* is handled as Terminal only: finalContent is set to its trimmed payload and
\* the pending-selection flag is not raised by that line.
C3_TerminalTakesPrecedence ==
    [][\A i \in 1..MaxSockets : \A m \in Lines :
          (startsWith(m, SENTINEL) /\ includes(m, PROMPT) /\ onmessage(i, m))
          => /\ finalContent' = trim(SubSeq(m, Len(SENTINEL) + 1, Len(m)))
             /\ PendingSelection' = PendingSelection]_vars

\* C4: on the page index.html provides, start(destination, date) with a
\* non-blank destination and a non-blank date opens a new connection and the
\* session reaches Planning, from any prior state.
C4_StartSucceedsOnIndexHtml ==
    [][\A d \in Destinations : \A t \in TravelDates :
          (StartCalled /\ dom = IndexHtmlIds /\ ~Blank(d) /\ ~Blank(t)
             /\ startPlanning(d, t))
          => /\ Len(sockets') = Len(sockets) + 1
             /\ ws' = Len(sockets')
             /\ State' = "Planning"]_vars

\* C5: a successful start() leaves log empty, finalContent unset and the
\* pending-selection flag cleared, whatever the previous session's state was.
C5_StartResetsSession ==
    last.outcome = "ok"
    => /\ log = <<>>
       /\ ~FinalContentSet
       /\ ~PendingSelection

\* C5 witness: start() has just succeeded in a session that was Completed with
\* finalContent set, the flag raised and a non-empty log.
C5_Witness ==
    /\ last.outcome = "ok"
    /\ last.pre.state = "Completed"
    /\ last.pre.final
    /\ last.pre.flag
    /\ last.pre.logged

\* C6: start() with a destination or a date that is empty or only whitespace
\* fails validation before any connection attempt: no connection is opened and
\* nothing is sent.
C6_InvalidStartOpensNothing ==
    [][\A d \in Destinations : \A t \in TravelDates :
          (StartCalled /\ (Blank(d) \/ Blank(t)) /\ startPlanning(d, t))
          => /\ last'.outcome = "invalid"
             /\ sockets' = sockets
             /\ ws' = ws
             /\ outbox' = outbox]_vars

\* C6 witness: a start() has just failed validation, in a session whose
\* connection is open.
C6_Witness ==
    /\ last.outcome = "invalid"
    /\ last.pre.state = "Planning"
    /\ ws \in OpenSockets

\* C7: at most one connection is open.
C7_AtMostOneOpenConnection == Cardinality(OpenSockets) <= 1

\* C8: in AwaitingSelection, submitSelection(text) with a non-empty text sends
\* exactly that text as one outbound message, clears the pending-selection
\* flag and returns the session to Planning.
C8_SubmitAnswersPrompt ==
    [][\A text \in Selections \ {""} :
          (State = "AwaitingSelection" /\ submitClusterSelection(text))
          => /\ Transmitted' =
                  Append(Transmitted, [data |-> text, readyState |-> "OPEN"])
             /\ ~PendingSelection'
             /\ State' = "Planning"]_vars

\* C9: finalContent is set if and only if the session state is Completed.
C9_FinalContentIffCompleted == FinalContentSet <=> State = "Completed"

\* C10: the outbound messages never outnumber the prompt-answer cycles: a
\* message goes out only when a Prompt line has been received since the
\* previous one.
C10_OneSendPerPrompt ==
    [][Len(Transmitted') > Len(Transmitted) => promptPending]_vars

\* the page as the user sees it
Page == <<progress, itinerary, display, clusterInput>>

\* C11: when the connection closes or errors the session moves to Closed and
\* a terminal status is surfaced (the page shows something new); from then
\* until the next start(), log and finalContent do not change and
\* submitSelection sends nothing.
C11_ClosedIsSurfacedAndFrozen ==
    [][/\ (ws # 0 /\ SocketCloses(ws)) => (State' = "Closed" /\ Page' # Page)
       /\ (State = "Closed" /\ ~StartCalled)
          => /\ log' = log
             /\ finalContent' = finalContent
             /\ Transmitted' = Transmitted]_vars

\* C12: from AwaitingSelection the session leaves only to Planning or to
\* Closed, and an inbound line received while a selection is pending never
\* leaves finalContent set with the pending-selection flag still raised.
C12_AwaitingLeavesOnlyToPlanningOrClosed ==
    [][(State = "AwaitingSelection" /\ ~StartCalled)
          => /\ State' \in {"AwaitingSelection", "Planning", "Closed"}
             /\ ~(FinalContentSet' /\ PendingSelection')]_vars

\* a message is delivered to the onmessage handler of some socket
Delivered(m) == \E i \in 1..MaxSockets : onmessage(i, m)

\* the lines that hold the sentinel in their first characters
SentinelFirst ==
    {m \in Lines :
        Len(m) >= Len(SENTINEL) /\ SubSeq(m, 1, Len(SENTINEL)) = SENTINEL}

\* what follows the first Len(SENTINEL) characters, without the whitespace
\* around it
RestTrimmed ==
    [m \in SentinelFirst |-> trim(SubSeq(m, Len(SENTINEL) + 1, Len(m)))]

\* C13: onMessage sets finalContent if and only if the line begins at
\* position 0 with the sentinel; finalContent is then the rest of the line,
\* trimmed, and the line is not appended to log. Any other line, also one with
\* the sentinel further in, is appended to log and leaves finalContent alone.
C13_TerminalIsPrefixAnchored ==
    [][\A m \in Lines :
          Delivered(m)
          => IF m \in SentinelFirst
             THEN /\ finalContent' = RestTrimmed[m]
                  /\ log' = log
             ELSE /\ finalContent' = finalContent
                  /\ log' = Append(log, m)]_vars

\* C13 witness: a line with the sentinel at position 1 went to the log and a
\* line with the sentinel at position 0 set finalContent to its trimmed rest.
C13_Witness ==
    /\ log = <<"x" \o SENTINEL \o "ABC">>
    /\ finalContent = "# Paris Trip"
    /\ last = NoStart

\* C14: in Planning, an inbound non-Terminal line that contains the prompt
\* substring at any position raises the pending-selection flag (the state
\* becomes AwaitingSelection) and is appended to log as the newest entry.
C14_PromptRaisesFlagAndIsLogged ==
    [][\A m \in Lines :
          (/\ State = "Planning"
           /\ ~startsWith(m, SENTINEL)
           /\ \E k \in 1..(Len(m) - Len(PROMPT) + 1) :
                 SubSeq(m, k, k + Len(PROMPT) - 1) = PROMPT
           /\ Delivered(m))
          => /\ PendingSelection'
             /\ State' = "AwaitingSelection"
             /\ Len(log') = Len(log) + 1
             /\ log'[Len(log')] = m]_vars

\* C14 witness: a line with the prompt substring past position 0 arrived
\* after another line; the session is AwaitingSelection and the line is the
\* newest log entry.
C14_Witness ==
    /\ State = "AwaitingSelection"
    /\ Len(log) = 2
    /\ log[2] = "note: " \o PROMPT \o " now"
    /\ ~includes(log[1], PROMPT)

\* C15: log is append-only and in arrival order: every inbound message leaves
\* log as it was (a Terminal line) or with the line added, verbatim, after all
\* earlier entries; no line is rejected or closes the session; and no other
\* step before the next start() changes log.
C15_LogIsAppendOnlyInArrivalOrder ==
    [][/\ \A m \in Lines :
            Delivered(m)
            => /\ log' = IF m \in SentinelFirst THEN log ELSE log \o <<m>>
               /\ sockets' = sockets
               /\ ws' = ws
       /\ (~StartCalled /\ ~\E m \in Lines : Delivered(m)) => log' = log]_vars

\* C15 witness: two lines arrived on the session's connection and the log
\* holds them in the order received.
C15_Witness ==
    /\ Len(sockets) = 1
    /\ log = <<"x" \o SENTINEL \o "ABC", "note: " \o PROMPT \o " now">>

\* C16: submitSelection does not validate its text: in AwaitingSelection every
\* text value, the empty string included, is sent to the server and clears
\* the pending-selection flag.
C16_SubmitSendsAnyText ==
    [][\A text \in Selections :
          (State = "AwaitingSelection" /\ ws \in OpenSockets
             /\ submitClusterSelection(text))
          => /\ Len(Transmitted') = Len(Transmitted) + 1
             /\ Transmitted'[Len(Transmitted')].data = text
             /\ ~PendingSelection']_vars

\* C17: after a second start(), a message delivered on an earlier connection
\* never changes the log, the pending-selection flag or the finalContent of
\* the new session.
C17_StaleConnectionIsIgnored ==
    [][\A m \in Lines :
          (Delivered(m) /\ ~onmessage(ws, m))
          => /\ log' = log
             /\ PendingSelection' = PendingSelection
             /\ finalContent' = finalContent]_vars

\* C18: a start() call that fails validation leaves the existing session
\* untouched: log, finalContent, the pending-selection flag and the current
\* connection are unchanged, as is every connection's ability to deliver.
C18_InvalidStartLeavesSession ==
    [][\A d \in Destinations : \A t \in TravelDates :
          (StartCalled /\ (Blank(d) \/ Blank(t)) /\ startPlanning(d, t))
          => /\ log' = log
             /\ finalContent' = finalContent
             /\ PendingSelection' = PendingSelection
             /\ State' = State
             /\ OpenSockets' = OpenSockets
             /\ Page' = Page]_vars

\* C18 witness: a start() has just failed validation while a session with a
\* log entry and a raised flag was running on an open connection.
C18_Witness ==
    /\ last.outcome = "invalid"
    /\ last.pre.state = "AwaitingSelection"
    /\ last.pre.logged
    /\ State = "AwaitingSelection"
    /\ log # <<>>
    /\ ws \in OpenSockets

\* C19: submitSelection never attempts a send on a connection that is not
\* open, neither while it is connecting nor after it has closed.
C19_SendsOnlyOnOpenConnection ==
    \A k \in 1..Len(outbox) : outbox[k].readyState = "OPEN"

====
